---- MODULE Spec2Model ----
(***************************************************************************)
(* Model of the Mapper of package pg (niklucky/go-pg).                     *)
(*                                                                         *)
(* The repository holds two versions of the same Mapper: main.go, whose    *)
(* operations go through checkConnection, and part_000, whose operations   *)
(* call the exported Connect and drop its error.  The variable `version`   *)
(* says which file the Mapper of a behaviour is compiled from.             *)
(*                                                                         *)
(* Text (SQL, JSON payloads) is a sequence of tokens, each token a string. *)
(* The driver (database/sql, lib/pq) is the environment: the outcome of    *)
(* each of its calls is an input of the action that makes the call.        *)
(***************************************************************************)
EXTENDS Integers, Sequences, FiniteSets, TLC

VARIABLES
    version,        \* "main.go" or "part_000": the file the Mapper comes from
    Conn,           \* Mapper.Conn: "nil", "open" or "closed"
    ConnectionInfo, \* Mapper.ConnectionInfo: "" until connect builds the DSN
    leaked,         \* opened *sql.DB handles no longer referenced and never closed
    Listener,       \* Mapper.Listener: "nil" or "live"
    listeners,      \* pq listeners created and never closed
    aborted,        \* the process has panicked
    lpc,            \* position of the Listen goroutine: "idle", "listening", "handler"
    Notify,         \* Listener.Notify: the channel of notifications in flight
    received,       \* history: what the loop took from Notify, in order
    handled,        \* history: the values handed to Handler, in order
    running,        \* Handler invocations that have not returned
    logged,         \* history: the calls of Mapper.Log, in order
    pings,          \* liveness pings dispatched (go l.Ping())
    pinging,        \* ping goroutines that have not finished
    ops,            \* caller operations issued so far
    lastOp,         \* history: the last caller operation and what it returned
    sqlIssued,      \* SQL texts handed to the driver (Query and Prepare)
    prepared,       \* statements prepared
    sent,           \* notifications the server has sent
    idles           \* idle timeouts that have fired

vars == <<version, Conn, ConnectionInfo, leaked, Listener, listeners, aborted,
          lpc, Notify, received, handled, running, logged, pings, pinging,
          ops, lastOp, sqlIssued, prepared, sent, idles>>

dataVars == <<Conn, ConnectionInfo, leaked, sqlIssued, prepared>>
loopVars == <<Notify, received, handled, running, pings, pinging, sent, idles>>

(***************************************************************************)
(* Bounds of the model.                                                    *)
(***************************************************************************)
MaxOps == 3      \* caller operations in one behaviour
MaxNotify == 3   \* notifications the server sends in one behaviour
MaxIdle == 2     \* idle timeouts in one behaviour
MaxFields == 2   \* length of a field list
MaxRows == 2     \* rows of one InsertBatch

(***************************************************************************)
(* Constants of the program.                                               *)
(***************************************************************************)
LOG == "log"
ERROR == "error"

Versions == {"main.go", "part_000"}

\* Outcomes of a driver call that can fail.
Outcomes == {"ok", "err"}

\* Outcomes of stmt.Exec, which runs only when Prepare (outcome p) succeeded.
ExecOutcomes(p) == IF p = "ok" THEN Outcomes ELSE {"ok"}

(***************************************************************************)
(* Text helpers.                                                           *)
(***************************************************************************)
Digit == <<"0", "1", "2", "3", "4", "5", "6", "7", "8", "9">>

\* strconv.Itoa for n >= 0: the decimal digits of n.
RECURSIVE Itoa(_)
Itoa(n) == IF n < 10 THEN Digit[n + 1] ELSE Itoa(n \div 10) \o Digit[(n % 10) + 1]

\* strings.Join over token lists: the elements of ss separated by the token sep.
RECURSIVE Join(_, _)
Join(ss, sep) ==
    IF ss = <<>> THEN <<>>
    ELSE IF Len(ss) = 1 THEN ss[1]
    ELSE ss[1] \o <<sep>> \o Join(Tail(ss), sep)

\* A list of names as the list of one-token texts strings.Join takes.
Toks(names) == [i \in 1..Len(names) |-> <<names[i]>>]


\* A permutation of the set S as a list: one order a Go map may be ranged in.
Perms(S) == {p \in [1..Cardinality(S) -> S] : \A x \in S : \E i \in DOMAIN p : p[i] = x}

\* The lists over S of length 0..n.
SeqsUpTo(S, n) == UNION {[1..k -> S] : k \in 0..n}

(***************************************************************************)
(* Inputs of the operations.                                               *)
(***************************************************************************)
NoValue == "<nil>"                      \* a nil interface{} argument
DBConfig == [User |-> "u", Password |-> "p", Host |-> "h", Port |-> "5432",
             Database |-> "d", SSLmode |-> "disable"]
Source == "t"                           \* Mapper.Source
FieldNames == {"a", "b"}
FieldLists == SeqsUpTo(FieldNames, MaxFields)
KeySets == SUBSET {"id", "k"}           \* the keys of Save's conflict map
RowLens == {1, 2}                       \* len(row) of a row of InsertBatch
RowLists == SeqsUpTo(RowLens, MaxRows)
BatchFields == {<<"a", "b">>}           \* InsertBatch's field list
Predicates == {NoValue, "x=1"}          \* Load's query argument
OnDuplicates == {NoValue, "DO NOTHING"} \* InsertBatch's onDuplicate argument
RawSQL == {<<"SELECT 1">>}              \* Exec's / Query's argument

(***************************************************************************)
(* Mapper.Log: prints its arguments and returns an error made of the first.*)
(* The history keeps the first two arguments of each call.                 *)
(***************************************************************************)
Log(level, msg) == Append(logged, <<level, msg>>)

\* Mapper.GetDBInfo
GetDBInfo == DBConfig.Host \o "/" \o DBConfig.Database

(***************************************************************************)
(* connect / Connect: builds the DSN and opens the handle.  o is the       *)
(* outcome of sql.Open.  sql.Open never returns a nil handle without an    *)
(* error, so the conn == nil branch is not an outcome.  The new handle     *)
(* overwrites Mapper.Conn; a handle that was open there is never closed.   *)
(***************************************************************************)
DSN ==
    "postgres://" \o DBConfig.User \o ":" \o DBConfig.Password \o "@" \o DBConfig.Host
    \o ":" \o DBConfig.Port \o "/" \o DBConfig.Database \o "?sslmode=" \o DBConfig.SSLmode

connect(o) ==
    [Conn   |-> IF o = "ok" THEN "open" ELSE Conn,
     info   |-> DSN,
     leaked |-> IF o = "ok" /\ Conn = "open" THEN leaked + 1 ELSE leaked,
     err    |-> IF o = "ok" THEN "nil" ELSE "open",
     open   |-> o]

\* The connection state when no open is attempted.
NoConnect ==
    [Conn |-> Conn, info |-> ConnectionInfo, leaked |-> leaked, err |-> "nil", open |-> "none"]

\* main.go: checkConnection opens a connection only when there is none and
\* returns connect's error.
checkConnection(o) == IF Conn = "nil" THEN connect(o) ELSE NoConnect

\* part_000: `if Conn == nil { Connect() }`, the error of Connect dropped.
ConnectIgnored(o) == IF Conn = "nil" THEN [connect(o) EXCEPT !.err = "nil"] ELSE NoConnect

(***************************************************************************)
(* Calls on the handle c.  A method call on a nil *sql.DB dereferences nil *)
(* and panics; a closed handle answers "sql: database is closed".          *)
(***************************************************************************)
DriverCall(c, outcome, errName) ==
    IF c = "nil" THEN "panic"
    ELSE IF c = "closed" THEN "closed"
    ELSE IF outcome = "ok" THEN "nil" ELSE errName

\* What an operation did: the connection state it leaves, the SQL text it
\* built, how many texts it handed to the driver and prepared, its error.
Result(cc, sql, err, issued, prep) ==
    [Conn |-> cc.Conn, info |-> cc.info, leaked |-> cc.leaked, open |-> cc.open,
     sql |-> sql, err |-> err, issued |-> issued, prepared |-> prep]

\* Conn.Query(SQL) on the handle of cc.
QueryOn(cc, SQL, q) == Result(cc, SQL, DriverCall(cc.Conn, q, "query"), 1, 0)

\* Conn.Prepare(SQL); defer stmt.Close(); stmt.Exec(values...) on the handle of cc.
PrepareExecOn(cc, SQL, p, e) ==
    LET pr == DriverCall(cc.Conn, p, "prepare") IN
    IF pr # "nil" THEN Result(cc, SQL, pr, 1, 0)
    ELSE Result(cc, SQL, IF e = "ok" THEN "nil" ELSE "exec", 1, 1)

\* The arguments the history keeps of an operation: the field list and the
\* conflict keys of Save, the number of rows of InsertBatch.
Args(fields, key, nrows) == [fields |-> fields, key |-> key, nrows |-> nrows]
NoArgs == Args(<<>>, {}, 0)

\* The operation op has run on args with result r: the Mapper and the history
\* after it.
Finish(op, args, r) ==
    /\ Conn' = r.Conn
    /\ ConnectionInfo' = r.info
    /\ leaked' = r.leaked
    /\ sqlIssued' = sqlIssued + r.issued
    /\ prepared' = prepared + r.prepared
    /\ aborted' = (r.err = "panic")
    /\ ops' = ops + 1
    /\ lastOp' = [n |-> ops + 1, op |-> op, args |-> args, open |-> r.open,
                  err |-> r.err, sql |-> r.sql]

\* Outcomes of the sql.Open of an operation that opens only when Conn is nil.
OpenOutcomes == IF Conn = "nil" THEN Outcomes ELSE {"ok"}

\* A caller may issue an operation.
CanCall == ~aborted /\ ops < MaxOps


(***************************************************************************)
(* Query builders.                                                         *)
(***************************************************************************)
\* "$1", ..., "$n": the placeholder of each field, two tokens each.
Placeholders(n) == [i \in 1..n |-> <<"$", Itoa(i)>>]

\* main.go generateInsertQuery
generateInsertQuery(fields) ==
    <<"INSERT INTO ", Source, " (">> \o Join(Toks(fields), ",") \o <<") VALUES ">>
    \o <<"(">> \o Join(Placeholders(Len(fields)), ",") \o <<")">>

\* generateOnConflictQuery with the assignments numbered from 0 instead of 1.
generateOnConflictQuery_ZeroBased(fields, idx) ==
    IF Len(idx) = 0 THEN <<" ON CONFLICT DO NOTHING ">>
    ELSE <<" ON CONFLICT (">> \o Join(Toks(idx), ",") \o <<") DO UPDATE SET ">>
         \o Join([i \in 1..Len(fields) |-> <<fields[i], " = $", Itoa(i - 1), " ">>], ",")

\* main.go generateOnConflictQuery.  idx is the order in which the keys of
\* the conflict map were ranged over.
generateOnConflictQuery(fields, idx) ==
    IF Len(idx) = 0 THEN <<" ON CONFLICT DO NOTHING ">>
    ELSE <<" ON CONFLICT (">> \o Join(Toks(idx), ",") \o <<") DO UPDATE SET ">>
         \o Join([i \in 1..Len(fields) |-> <<fields[i], " = $", Itoa(i), " ">>], ",")

\* The SELECT text of Load.
LoadSQL(source, fields, query) ==
    <<"SELECT ", fields, " FROM ", source>>
    \o (IF query # NoValue THEN <<" WHERE ", query>> ELSE <<>>) \o <<";">>

\* The number of values in the rows before row k.
RECURSIVE Before(_, _)
Before(rows, k) == IF k = 1 THEN 0 ELSE Before(rows, k - 1) + rows[k - 1]

\* The multi-row insert text of InsertBatch: one counter numbers the
\* placeholders across all rows.
InsertBatchSQL(fields, rows, onDuplicate) ==
    <<"insert into ", Source, " (">> \o Join(Toks(fields), ",") \o <<") values ">>
    \o Join([k \in 1..Len(rows) |->
                <<"(">> \o Join([i \in 1..rows[k] |-> <<"$", Itoa(Before(rows, k) + i)>>], ",")
                \o <<")">>], ",")
    \o (IF onDuplicate # NoValue THEN <<" ON CONFLICT ", onDuplicate>> ELSE <<>>)

(***************************************************************************)
(* Data operations of main.go.                                             *)
(***************************************************************************)
\* main.go execute: checkConnection, then prepare and execute.
execute(SQL, o, p, e) ==
    LET cc == checkConnection(o) IN
    IF cc.err # "nil" THEN Result(cc, SQL, cc.err, 0, 0)
    ELSE PrepareExecOn(cc, SQL, p, e)

\* main.go Exec, as a result.
ExecResult(SQL, o, q) ==
    LET cc == checkConnection(o) IN
    IF cc.err # "nil" THEN Result(cc, SQL, cc.err, 0, 0)
    ELSE QueryOn(cc, SQL, q)

\* main.go Load: checkConnection, then Exec (whose own checkConnection finds
\* the connection just opened).
Load ==
    /\ CanCall /\ version = "main.go"
    /\ \E query \in Predicates, o \in OpenOutcomes, q \in Outcomes :
         LET SQL == LoadSQL(Source, "*", query)
             cc  == checkConnection(o) IN
         Finish("Load", NoArgs, IF cc.err # "nil" THEN Result(cc, SQL, cc.err, 0, 0)
                           ELSE QueryOn(cc, SQL, q))
    /\ UNCHANGED <<version, Listener, listeners, lpc, logged, loopVars>>

\* The text Save builds.
SaveSQL(fields, idx) == generateInsertQuery(fields) \o generateOnConflictQuery(fields, idx)

\* main.go Save
Save ==
    /\ CanCall /\ version = "main.go"
    /\ \E fields \in FieldLists, key \in KeySets, o \in OpenOutcomes, p \in Outcomes :
         \E e \in ExecOutcomes(p) :
         \E idx \in Perms(key) :
           Finish("Save", Args(fields, key, 0), execute(SaveSQL(fields, idx), o, p, e))
    /\ UNCHANGED <<version, Listener, listeners, lpc, logged, loopVars>>

\* main.go Create
Create ==
    /\ CanCall /\ version = "main.go"
    /\ \E fields \in FieldLists, o \in OpenOutcomes, p \in Outcomes :
         \E e \in ExecOutcomes(p) :
         Finish("Create", Args(fields, {}, 0), execute(generateInsertQuery(fields), o, p, e))
    /\ UNCHANGED <<version, Listener, listeners, lpc, logged, loopVars>>

\* main.go Exec
Exec ==
    /\ CanCall /\ version = "main.go"
    /\ \E SQL \in RawSQL, o \in OpenOutcomes, q \in Outcomes :
         Finish("Exec", NoArgs, ExecResult(SQL, o, q))
    /\ UNCHANGED <<version, Listener, listeners, lpc, logged, loopVars>>

\* InsertBatch with the connection check made before the rows are counted.
InsertBatchResult_ConnectsFirst(fields, rows, onDuplicate, cc, p, e) ==
    IF cc.err # "nil" THEN Result(cc, <<>>, cc.err, 0, 0)
    ELSE IF Len(rows) = 0 THEN Result(cc, <<>>, "nil", 0, 0)
    ELSE PrepareExecOn(cc, InsertBatchSQL(fields, rows, onDuplicate), p, e)

\* InsertBatch, as a result: nothing at all for an empty row set; otherwise
\* cc is the connection state after the version's connection check.
InsertBatchResult(fields, rows, onDuplicate, cc, p, e) ==
    IF Len(rows) = 0 THEN Result(NoConnect, <<>>, "nil", 0, 0)
    ELSE IF cc.err # "nil" THEN Result(cc, <<>>, cc.err, 0, 0)
    ELSE PrepareExecOn(cc, InsertBatchSQL(fields, rows, onDuplicate), p, e)

\* main.go InsertBatch
InsertBatch ==
    /\ CanCall /\ version = "main.go"
    /\ \E fields \in BatchFields, rows \in RowLists, d \in OnDuplicates,
          o \in OpenOutcomes, p \in Outcomes :
         \E e \in ExecOutcomes(p) :
         Finish("InsertBatch", Args(fields, {}, Len(rows)),
                InsertBatchResult(fields, rows, d, checkConnection(o), p, e))
    /\ UNCHANGED <<version, Listener, listeners, lpc, logged, loopVars>>

(***************************************************************************)
(* Data operations of part_000.                                            *)
(***************************************************************************)
\* part_000 Connect, exported: the caller may call it at any time.
Connect ==
    /\ CanCall /\ version = "part_000"
    /\ \E o \in Outcomes :
         LET cc == connect(o) IN Finish("Connect", NoArgs, Result(cc, <<>>, cc.err, 0, 0))
    /\ UNCHANGED <<version, Listener, listeners, lpc, logged, loopVars>>

\* part_000 Load: Connect's error is dropped and Conn.Query runs on whatever
\* Conn holds.
LoadP ==
    /\ CanCall /\ version = "part_000"
    /\ \E query \in Predicates, o \in OpenOutcomes, q \in Outcomes :
         Finish("Load", NoArgs, QueryOn(ConnectIgnored(o), LoadSQL(Source, "*", query), q))
    /\ UNCHANGED <<version, Listener, listeners, lpc, logged, loopVars>>

\* part_000 InsertBatch
InsertBatchP ==
    /\ CanCall /\ version = "part_000"
    /\ \E fields \in BatchFields, rows \in RowLists, d \in OnDuplicates,
          o \in OpenOutcomes, p \in Outcomes :
         \E e \in ExecOutcomes(p) :
         Finish("InsertBatch", Args(fields, {}, Len(rows)),
                InsertBatchResult(fields, rows, d, ConnectIgnored(o), p, e))
    /\ UNCHANGED <<version, Listener, listeners, lpc, logged, loopVars>>

\* part_000 Insert: InsertBatch of the one row.
InsertP ==
    /\ CanCall /\ version = "part_000"
    /\ \E fields \in BatchFields, row \in RowLens, d \in OnDuplicates,
          o \in OpenOutcomes, p \in Outcomes :
         \E e \in ExecOutcomes(p) :
         Finish("Insert", Args(fields, {}, 1),
                InsertBatchResult(fields, <<row>>, d, ConnectIgnored(o), p, e))
    /\ UNCHANGED <<version, Listener, listeners, lpc, logged, loopVars>>

\* part_000 Query: the one operation of part_000 that returns Connect's error.
Query ==
    /\ CanCall /\ version = "part_000"
    /\ \E SQL \in RawSQL, o \in OpenOutcomes, q \in Outcomes :
         LET cc == IF Conn = "nil" THEN connect(o) ELSE NoConnect IN
         Finish("Query", NoArgs, IF cc.err # "nil" THEN Result(cc, SQL, cc.err, 0, 0)
                            ELSE QueryOn(cc, SQL, q))
    /\ UNCHANGED <<version, Listener, listeners, lpc, logged, loopVars>>

(***************************************************************************)
(* Close (the same in both files): closes the handle and leaves            *)
(* Mapper.Conn pointing at it.  c is the outcome of Conn.Close().          *)
(***************************************************************************)
Close ==
    /\ CanCall
    /\ \E c \in Outcomes :
         IF Conn # "nil"
         THEN /\ logged' = Log("log", GetDBInfo \o " closing connection")
              /\ Finish("Close", NoArgs,
                        Result([NoConnect EXCEPT !.Conn = "closed"], <<>>,
                               IF c = "ok" \/ Conn = "closed" THEN "nil" ELSE "close", 0, 0))
         ELSE /\ logged' = logged
              /\ Finish("Close", NoArgs, Result(NoConnect, <<>>, "nil", 0, 0))
    /\ UNCHANGED <<version, Listener, listeners, lpc, loopVars>>


(***************************************************************************)
(* json.Unmarshal into an interface{}, over token lists.  The tokens are   *)
(* the punctuation of JSON, the number 1, two string literals and a blank. *)
(* A decoded value is a tagged pair: <<"num", 1>>, <<"str", s>>,           *)
(* <<"arr", list of values>>, <<"obj", function from keys to values>>.     *)
(***************************************************************************)
StringToks == {"\"a\"", "\"b\""}

ParseFail == [ok |-> FALSE, val |-> <<"null">>, rest |-> <<>>]
ParseOk(v, rest) == [ok |-> TRUE, val |-> v, rest |-> rest]

RECURSIVE ParseValue(_), ParseElems(_, _), ParseMembers(_, _)
ParseValue(s) ==
    IF s = <<>> THEN ParseFail
    ELSE IF Head(s) = "1" THEN ParseOk(<<"num", 1>>, Tail(s))
    ELSE IF Head(s) \in StringToks THEN ParseOk(<<"str", Head(s)>>, Tail(s))
    ELSE IF Head(s) = "["
         THEN IF Len(s) >= 2 /\ s[2] = "]" THEN ParseOk(<<"arr", <<>>>>, Tail(Tail(s)))
              ELSE ParseElems(Tail(s), <<>>)
    ELSE IF Head(s) = "{"
         THEN IF Len(s) >= 2 /\ s[2] = "}" THEN ParseOk(<<"obj", <<>>>>, Tail(Tail(s)))
              ELSE ParseMembers(Tail(s), <<>>)
    ELSE ParseFail

\* The elements of an array after "[" or ",": acc holds those decoded so far.
ParseElems(s, acc) ==
    LET v == ParseValue(s) IN
    IF ~v.ok \/ v.rest = <<>> THEN ParseFail
    ELSE IF Head(v.rest) = "," THEN ParseElems(Tail(v.rest), Append(acc, v.val))
    ELSE IF Head(v.rest) = "]" THEN ParseOk(<<"arr", Append(acc, v.val)>>, Tail(v.rest))
    ELSE ParseFail

\* The members of an object after "{" or ",": a later member replaces an
\* earlier one of the same key, as in a Go map.
ParseMembers(s, acc) ==
    IF Len(s) < 3 \/ s[1] \notin StringToks \/ s[2] # ":" THEN ParseFail
    ELSE LET v == ParseValue(SubSeq(s, 3, Len(s))) IN
         IF ~v.ok \/ v.rest = <<>> THEN ParseFail
         ELSE IF Head(v.rest) = "," THEN ParseMembers(Tail(v.rest), (s[1] :> v.val) @@ acc)
         ELSE IF Head(v.rest) = "}"
              THEN ParseOk(<<"obj", (s[1] :> v.val) @@ acc>>, Tail(v.rest))
         ELSE ParseFail

\* Insignificant whitespace is skipped; anything after the value is an error.
Unmarshal(text) ==
    LET r == ParseValue(SelectSeq(text, LAMBDA t : t # " ")) IN
    IF r.ok /\ r.rest = <<>> THEN [ok |-> TRUE, val |-> r.val]
    ELSE [ok |-> FALSE, val |-> <<"null">>]

(***************************************************************************)
(* Notifications.  A *pq.Notification is nil (pq sends nil after it has    *)
(* reconnected) or carries the payload Extra.                              *)
(***************************************************************************)
Payloads ==
    { <<"{", "\"a\"", ":", "1", "}">>,            \* {"a":1}
      <<"{", " ", "\"a\"", ":", " ", "1", "}">>,  \* { "a": 1}
      <<"[", "1", ",", "\"b\"", "]">>,            \* [1,"b"]
      <<"{", "\"a\"", ":">>,                      \* {"a":     cut short
      <<>> }                                      \* the empty payload
NilNotification == [isNil |-> TRUE, Extra |-> <<>>]
Notifications == {NilNotification} \cup {[isNil |-> FALSE, Extra |-> x] : x \in Payloads}

(***************************************************************************)
(* Listen.  o is the outcome of sql.Open, s of Listener.Listen("finery").  *)
(***************************************************************************)
\* Listen after its connection check, in both files: log, create the
\* listener, subscribe; panic when the subscription fails, loop otherwise.
ListenOn(cc, s) ==
    /\ logged' = Log(LOG, "Listen " \o DBConfig.Host \o "/" \o DBConfig.Database \o " connecting")
    /\ Listener' = "live"
    /\ listeners' = listeners + 1
    /\ lpc' = IF s = "ok" THEN "listening" ELSE lpc
    /\ Finish("Listen", NoArgs, Result(cc, <<>>, IF s = "ok" THEN "running" ELSE "panic", 0, 0))

\* main.go Listen: returns checkConnection's error before anything else.
Listen ==
    /\ CanCall /\ version = "main.go" /\ lpc = "idle"
    /\ \E o \in OpenOutcomes, s \in Outcomes :
         LET cc == checkConnection(o) IN
         IF cc.err # "nil"
         THEN /\ Finish("Listen", NoArgs, Result(cc, <<>>, cc.err, 0, 0))
              /\ UNCHANGED <<Listener, listeners, lpc, logged>>
         ELSE ListenOn(cc, s)
    /\ UNCHANGED <<version, loopVars>>

\* part_000 Listen: Connect's error is dropped.
ListenP ==
    /\ CanCall /\ version = "part_000" /\ lpc = "idle"
    /\ \E o \in OpenOutcomes, s \in Outcomes : ListenOn(ConnectIgnored(o), s)
    /\ UNCHANGED <<version, loopVars>>

\* The server notifies on the channel, or pq reports a reconnection with nil.
ServerNotify ==
    /\ ~aborted /\ lpc # "idle" /\ sent < MaxNotify
    /\ \E n \in Notifications : Notify' = Append(Notify, n)
    /\ sent' = sent + 1
    /\ UNCHANGED <<version, dataVars, Listener, listeners, aborted, lpc, received, handled,
                   running, logged, pings, pinging, ops, lastOp, idles>>

(***************************************************************************)
(* HandleListen (the same in both files), one pass of the loop of Listen.  *)
(***************************************************************************)
\* Dispatch without the return after a JSON error: Handler gets the empty value.
Dispatch_NoReturnOnError(n) ==
    LET u == Unmarshal(n.Extra) IN
    IF n.isNil
    THEN /\ aborted' = TRUE
         /\ UNCHANGED <<logged, handled, running, lpc>>
    ELSE /\ logged' = IF u.ok THEN logged ELSE Log(ERROR, "Error processing JSON: ")
         /\ handled' = Append(handled, u.val)
         /\ running' = running + 1
         /\ lpc' = "handler"
         /\ UNCHANGED aborted

\* Dispatch that panics on a JSON error instead of logging it.
Dispatch_PanicOnError(n) ==
    LET u == Unmarshal(n.Extra) IN
    IF n.isNil \/ ~u.ok
    THEN /\ aborted' = TRUE
         /\ UNCHANGED <<logged, handled, running, lpc>>
    ELSE /\ handled' = Append(handled, u.val)
         /\ running' = running + 1
         /\ lpc' = "handler"
         /\ UNCHANGED <<aborted, logged>>

\* Dispatch with `go mapper.Handler(data)`: the loop goes on while Handler runs.
Dispatch_Async(n) ==
    LET u == Unmarshal(n.Extra) IN
    IF n.isNil
    THEN /\ aborted' = TRUE
         /\ UNCHANGED <<logged, handled, running, lpc>>
    ELSE IF ~u.ok
    THEN /\ logged' = Log(ERROR, "Error processing JSON: ")
         /\ UNCHANGED <<aborted, handled, running, lpc>>
    ELSE /\ handled' = Append(handled, u.val)
         /\ running' = running + 1
         /\ UNCHANGED <<aborted, logged, lpc>>

\* The body of `case n := <-l.Notify`.  For a nil n the argument n.Extra of
\* the Log call dereferences nil before Log is entered: the goroutine panics
\* and nothing is logged.  The call of Handler is synchronous: the loop is
\* inside it until it returns.
Dispatch(n) ==
    LET u == Unmarshal(n.Extra) IN
    IF n.isNil
    THEN /\ aborted' = TRUE
         /\ UNCHANGED <<logged, handled, running, lpc>>
    ELSE IF ~u.ok
    THEN /\ logged' = Log(ERROR, "Error processing JSON: ")
         /\ UNCHANGED <<aborted, handled, running, lpc>>
    ELSE /\ handled' = Append(handled, u.val)
         /\ running' = running + 1
         /\ lpc' = "handler"
         /\ UNCHANGED <<aborted, logged>>

\* select takes the notification at the head of l.Notify.
HandleListenNotify ==
    /\ ~aborted /\ lpc = "listening" /\ Notify # <<>>
    /\ Notify' = Tail(Notify)
    /\ received' = Append(received, Head(Notify))
    /\ Dispatch(Head(Notify))
    /\ UNCHANGED <<version, dataVars, Listener, listeners, pings, pinging, ops, lastOp,
                   sent, idles>>

\* mapper.Handler(data) returns, then HandleListen returns and Listen's loop
\* calls it again.
HandlerReturn ==
    /\ ~aborted /\ running > 0
    /\ running' = running - 1
    /\ lpc' = "listening"
    /\ UNCHANGED <<version, dataVars, Listener, listeners, aborted, Notify, received, handled,
                   logged, pings, pinging, ops, lastOp, sent, idles>>

\* IdlePass without the ping.
IdlePass_NoPing ==
    /\ logged' = Log(LOG, GetDBInfo \o ": Received no events")
    /\ UNCHANGED <<aborted, lpc, handled, running, pings, pinging>>

\* The body of `case <-time.After(ListenIdleTimeout)`: the idle notice, then
\* the ping in a goroutine of its own, then return.
IdlePass ==
    /\ logged' = Log(LOG, GetDBInfo \o ": Received no events")
    /\ pings' = pings + 1
    /\ pinging' = pinging + 1
    /\ UNCHANGED <<aborted, lpc, handled, running>>

\* select takes the timer, which may fire whether or not a notification waits.
HandleListenIdle ==
    /\ ~aborted /\ lpc = "listening" /\ idles < MaxIdle
    /\ idles' = idles + 1
    /\ IdlePass
    /\ UNCHANGED <<version, dataVars, Listener, listeners, Notify, received, ops, lastOp,
                   sent>>

\* l.Ping() finishes; nobody reads its result.
PingDone ==
    /\ ~aborted /\ pinging > 0
    /\ pinging' = pinging - 1
    /\ UNCHANGED <<version, dataVars, Listener, listeners, aborted, lpc, Notify, received,
                   handled, running, logged, pings, ops, lastOp, sent, idles>>

(***************************************************************************)
(* The specifications.                                                     *)
(***************************************************************************)
\* A Mapper as its struct literal leaves it: configuration, Source, Handler
\* and ListenIdleTimeout set, no connection, no listener.
Init ==
    /\ version \in Versions
    /\ Conn = "nil" /\ ConnectionInfo = "" /\ leaked = 0
    /\ Listener = "nil" /\ listeners = 0
    /\ aborted = FALSE /\ lpc = "idle"
    /\ Notify = <<>> /\ received = <<>> /\ handled = <<>> /\ running = 0
    /\ logged = <<>> /\ pings = 0 /\ pinging = 0
    /\ ops = 0 /\ sqlIssued = 0 /\ prepared = 0 /\ sent = 0 /\ idles = 0
    /\ lastOp = [n |-> 0, op |-> "none", args |-> NoArgs, open |-> "none",
                 err |-> "nil", sql |-> <<>>]

\* The operations a caller issues.
NextData ==
    \/ Load \/ Save \/ Create \/ Exec \/ InsertBatch
    \/ Connect \/ LoadP \/ InsertBatchP \/ InsertP \/ Query
    \/ Close \/ Listen \/ ListenP

\* The listener: its start, the server, the loop.
NextListen ==
    \/ Listen \/ ListenP \/ ServerNotify
    \/ HandleListenNotify \/ HandlerReturn \/ HandleListenIdle \/ PingDone

\* The caller and the listener together.  They share only the process
\* (aborted), the log and Listen itself, so each claim is checked under the
\* specification of the side it is about.
Next == NextData \/ NextListen

Spec == Init /\ [][Next]_vars
SpecData == Init /\ [][NextData]_vars
SpecListen == Init /\ [][NextListen]_vars


(***************************************************************************)
(* The claims.                                                             *)
(***************************************************************************)
Last(q) == q[Len(q)]

\* The payloads that are JSON, and the value each stands for.
ValidPayloads ==
    { <<"{", "\"a\"", ":", "1", "}">>,
      <<"{", " ", "\"a\"", ":", " ", "1", "}">>,
      <<"[", "1", ",", "\"b\"", "]">> }
MalformedPayloads == { <<"{", "\"a\"", ":">>, <<>> }
ValueOf(x) ==
    IF Head(x) = "{" THEN <<"obj", ("\"a\"" :> <<"num", 1>>)>>
    ELSE <<"arr", << <<"num", 1>>, <<"str", "\"b\"">> >> >>

IsValid(n) == ~n.isNil /\ n.Extra \in ValidPayloads
IsMalformed(n) == ~n.isNil /\ n.Extra \in MalformedPayloads

\* The loop has just taken the notification Last(received').
Took == Len(received') = Len(received) + 1

\* C1: the values handed to Handler are exactly the values of the valid-JSON
\* notifications the loop has received, one invocation each, in the order
\* they were received.
C1_HandledOnceInOrder ==
    LET valid == SelectSeq(received, IsValid) IN
    /\ Len(handled) = Len(valid)
    /\ \A i \in 1..Len(valid) : handled[i] = ValueOf(valid[i].Extra)

\* C1 witness: two valid notifications, an object and an array, were handled
\* and a malformed one was received among them.
C1_Witness ==
    /\ Len(handled) = 2
    /\ handled[1][1] = "obj" /\ handled[2][1] = "arr"
    /\ \E i \in 1..Len(received) : IsMalformed(received[i])

\* C2: a pass of the loop that ends by the idle timeout dispatches exactly one
\* ping and does not invoke Handler.
C2_IdlePassPingsOnce ==
    [][idles' = idles + 1 =>
         /\ pings' = pings + 1
         /\ pinging' = pinging + 1
         /\ handled' = handled /\ running' = running
         /\ lpc' = "listening" /\ ~aborted']_vars

\* C2 witness: idle timeouts have fired, one ping each, and Handler has never run.
C2_Witness == idles = MaxIdle /\ pings = idles /\ handled = <<>> /\ sent > 0

\* C3: a received notification whose payload is not JSON is logged, is not
\* handed to Handler, does not abort the process and leaves the loop
\* listening; a valid notification received after it is handed to Handler.
C3_MalformedLoggedAndSkipped ==
    [][/\ (Took /\ IsMalformed(Last(received'))) =>
             /\ logged' = Append(logged, <<ERROR, "Error processing JSON: ">>)
             /\ handled' = handled /\ running' = running
             /\ ~aborted' /\ lpc' = "listening"
       /\ (Took /\ IsValid(Last(received'))
                /\ \E i \in 1..Len(received) : IsMalformed(received[i])) =>
             handled' = Append(handled, ValueOf(Last(received').Extra))]_vars

\* C3 witness: a malformed notification was received and logged, and a valid
\* one received after it has been handled.
C3_Witness ==
    /\ Len(received) >= 2
    /\ IsMalformed(received[1]) /\ IsValid(received[2])
    /\ Len(handled) = 1
    /\ \E i \in 1..Len(logged) : logged[i] = <<ERROR, "Error processing JSON: ">>

\* C4: a nil notification is logged, Handler is not invoked, the process is
\* not aborted and HandleListen returns.
C4_NilLoggedAndReturned ==
    [][(Took /\ Last(received').isNil) =>
         /\ Len(logged') = Len(logged) + 1 /\ Last(logged')[1] = ERROR
         /\ handled' = handled /\ running' = running
         /\ ~aborted' /\ lpc' = "listening"]_vars

\* The operations C5 is about.
ConnectingOps == {"Load", "Save", "Create", "InsertBatch", "Exec", "Query", "Listen"}

\* C5: an operation that finds no connection and fails to open one returns
\* the open error, hands no SQL to the driver and does not abort the process.
C5_OpenErrorReturned ==
    [][(lastOp'.n # lastOp.n /\ lastOp'.op \in ConnectingOps /\ lastOp'.open = "err") =>
         /\ lastOp'.err = "open"
         /\ sqlIssued' = sqlIssued /\ prepared' = prepared
         /\ ~aborted']_vars

\* C6: once Listen is in its loop it stays there: it neither returns nor
\* aborts the process.
C6_ListensForever ==
    [][(lpc # "idle" /\ ~aborted) => (lpc' # "idle" /\ ~aborted')]_vars

\* Opened data connections that have not been closed.
LiveConns == leaked + (IF Conn = "open" THEN 1 ELSE 0)

\* C7: at most one live data connection and at most one live listener, and a
\* connection is opened only by an operation that found none.
C7_AtMostOneLive ==
    /\ [](LiveConns <= 1 /\ listeners <= 1)
    /\ [][(lastOp'.n # lastOp.n /\ lastOp'.open = "ok") => Conn = "nil"]_vars

\* C8: InsertBatch of an empty row set returns no error and changes nothing
\* of the Mapper: no connection opened, no SQL issued, no statement prepared.
C8_EmptyBatchNoOp ==
    [][(lastOp'.n # lastOp.n /\ lastOp'.op = "InsertBatch" /\ lastOp'.args.nrows = 0) =>
         /\ lastOp'.err = "nil" /\ lastOp'.open = "none" /\ lastOp'.sql = <<>>
         /\ UNCHANGED <<Conn, ConnectionInfo, leaked, sqlIssued, prepared, aborted,
                        Listener, listeners, logged>>]_vars

\* C8 witness: InsertBatch of no rows has run on a Mapper with no connection
\* and left it without one.
C8_Witness ==
    lastOp.op = "InsertBatch" /\ lastOp.args.nrows = 0 /\ Conn = "nil" /\ sqlIssued = 0

\* C9: at most one invocation of Handler is in progress, and while one is the
\* loop takes no notification, invokes no Handler and dispatches no ping.
C9_HandlerSynchronous ==
    /\ [](running <= 1 /\ (running = 1 <=> lpc = "handler"))
    /\ [][running > 0 =>
            /\ received' = received /\ handled' = handled
            /\ pings' = pings /\ running' <= running]_vars

\* C9 witness: Handler is running while a notification waits in the channel
\* and the idle timer could still fire.
C9_Witness == running = 1 /\ Notify # <<>> /\ idles < MaxIdle /\ pings > 0

\* The decimal numerals of 1..9, written out.
Numeral == <<"1", "2", "3", "4", "5", "6", "7", "8", "9">>

\* C10: the text of Save is the INSERT text of Create followed by the
\* on-conflict clause: DO NOTHING for no keys; otherwise the keys, each once,
\* and an assignment field = $i for every field i, numbered as in VALUES.
C10_SaveText ==
    lastOp.op = "Save" =>
      LET f == lastOp.args.fields
          K == lastOp.args.key
          n == Len(f)
          k == Cardinality(K)
          insert == generateInsertQuery(f)
          values == SubSeq(insert, Len(insert) - 3 * n + (IF n = 0 THEN 0 ELSE 1) , Len(insert) - 1)
          clause == SubSeq(lastOp.sql, Len(insert) + 1, Len(lastOp.sql))
          keys == SubSeq(clause, 2, 2 * k)
          sets == SubSeq(clause, 2 * k + 2, Len(clause))
      IN
      /\ SubSeq(lastOp.sql, 1, Len(insert)) = insert
      /\ Len(values) = (IF n = 0 THEN 0 ELSE 3 * n - 1)
      /\ \A i \in 1..n : values[3 * i - 2] = "$" /\ values[3 * i - 1] = Numeral[i]
      /\ \A i \in 1..(n - 1) : values[3 * i] = ","
      /\ IF K = {} THEN clause = <<" ON CONFLICT DO NOTHING ">>
         ELSE /\ clause[1] = " ON CONFLICT ("
              /\ Len(keys) = 2 * k - 1
              /\ {keys[2 * j - 1] : j \in 1..k} = K
              /\ \A j \in 1..(k - 1) : keys[2 * j] = ","
              /\ clause[2 * k + 1] = ") DO UPDATE SET "
              /\ Len(sets) = (IF n = 0 THEN 0 ELSE 5 * n - 1)
              /\ \A i \in 1..n :
                   /\ sets[5 * i - 4] = f[i] /\ sets[5 * i - 3] = " = $"
                   /\ sets[5 * i - 2] = Numeral[i] /\ sets[5 * i - 1] = " "
              /\ \A i \in 1..(n - 1) : sets[5 * i] = ","

\* C10 witness: Save has built the text for two fields and two conflict keys.
C10_Witness ==
    lastOp.op = "Save" /\ Len(lastOp.args.fields) = MaxFields
    /\ Cardinality(lastOp.args.key) = 2

====
